---------------------------- MODULE Spec2Model ----------------------------
(***************************************************************************)
(* Best-split search of Rumale's decision trees (yoshoku/rumale).          *)
(*                                                                         *)
(* The model follows the order-based scanners of                           *)
(*   src/rumale-tree/ext/rumale/tree/ext.c   (double, C)                   *)
(*   src/rumale-tree/ext/rumale/tree/ext.h   (macro per float width)       *)
(*   src/rumale-tree/ext/rumale/tree/ext.hpp (C++)                         *)
(*   src/ext/rumale/tree.c                   (older C)                     *)
(* which share one loop structure:                                         *)
(*                                                                         *)
(*   while (curr_pos < n_elements && curr_el != last_el) {                 *)
(*     next_el = f[o[next_pos]];                                           *)
(*     while (next_pos < n_elements && next_el == curr_el) { move one }    *)
(*     gain = ...; if (gain > best) best = candidate;                      *)
(*     if (next_pos == n_elements) break;                                  *)
(*     curr_pos = next_pos; curr_el = f[o[curr_pos]];                      *)
(*   }                                                                     *)
(*                                                                         *)
(* For comparison with them the model also holds the sorted-array scanner  *)
(* of src/ext/rumale/rumale.c and the list-keeping regression scanner of   *)
(* src/ext/rumale/tree.c, and the homogeneity checks of the tree builders. *)
(*                                                                         *)
(* Arrays are 0-based functions, as in the C code.  Floating point values  *)
(* are exact rationals [n |-> numerator, d |-> denominator]; log(el + 1.0) *)
(* is a fixed-point table in 1/1000.                                       *)
(***************************************************************************)
EXTENDS Integers, Sequences, FiniteSets, TLC

(***************************************************************************)
(* Bounds of the model.                                                    *)
(***************************************************************************)
\* largest number of samples of a node that is enumerated exhaustively
MaxN == 3

\* feature values; class counts; the target vectors of a sample, for one and
\* for two outputs; the (gradient, hessian) pairs of a sample; the
\* regularization terms
FeatVals == {1, 2, 3}
ClassCounts == {2}
TargetVecs == << {<<0>>, <<1>>}, {<<0, 1>>, <<3, 0>>} >>
GradHess == {<<-1, 1>>, <<1, 2>>, <<2, 0>>}
Lambdas == {1}

(***************************************************************************)
(* Exact arithmetic standing for double.                                   *)
(***************************************************************************)
Abs(i) == IF i < 0 THEN -i ELSE i

RECURSIVE GCD(_, _)
GCD(a, b) == IF b = 0 THEN a ELSE GCD(b, a % b)

\* a/b in lowest terms; x/0 is the not-a-number [n |-> 0, d |-> 0]
Frac(a, b) ==
  IF b = 0 THEN [n |-> 0, d |-> 0]
  ELSE LET g == GCD(Abs(a), Abs(b))
           s == IF b < 0 THEN -1 ELSE 1
       IN  [n |-> (s * a) \div g, d |-> (s * b) \div g]

Num(i) == [n |-> i, d |-> 1]
Zero == Num(0)
One == Num(1)
IsNum(x) == x.d # 0

RAdd(x, y) ==
  IF x.d = 0 \/ y.d = 0 THEN Frac(0, 0)
  ELSE LET g == GCD(x.d, y.d)
       IN  Frac(x.n * (y.d \div g) + y.n * (x.d \div g), (x.d \div g) * y.d)
RNeg(x) == [n |-> -x.n, d |-> x.d]
RSub(x, y) == RAdd(x, RNeg(y))
RMul(x, y) == Frac(x.n * y.n, x.d * y.d)
RDiv(x, y) == Frac(x.n * y.d, x.d * y.n)
RAbs(x) == [n |-> Abs(x.n), d |-> x.d]
\* x > y of C: false when either side is not a number
RGt(x, y) == IsNum(x) /\ IsNum(y) /\ RSub(x, y).n > 0
RGe(x, y) == IsNum(x) /\ IsNum(y) /\ RSub(x, y).n >= 0

\* sum of the rationals v[lo], ..., v[hi], added in index order
RECURSIVE RSum(_, _, _)
RSum(v, lo, hi) == IF lo > hi THEN Zero ELSE RAdd(RSum(v, lo, hi - 1), v[hi])

\* log(el + 1.0) for el = c / n, in 1/1000 (rounded); rows n = 1..8
Log1pTable ==
  << <<0, 693>>,
     <<0, 405, 693>>,
     <<0, 288, 511, 693>>,
     <<0, 223, 405, 560, 693>>,
     <<0, 182, 336, 470, 588, 693>>,
     <<0, 154, 288, 405, 511, 606, 693>>,
     <<0, 134, 251, 357, 452, 539, 619, 693>>,
     <<0, 118, 223, 318, 405, 486, 560, 629, 693>> >>

\* log(el + 1.0) where el = c / n with 0 <= c <= n
Log1p(c, n) ==
  IF n < 1 \/ n > Len(Log1pTable) \/ c < 0 \/ c > n THEN Frac(0, 0)
  ELSE Frac(Log1pTable[n][c + 1], 1000)

(***************************************************************************)
(* Criterion Evaluator: classification.                                    *)
(***************************************************************************)
\* calc_gini_coef without the complement to 1
calc_gini_coef_NoComplement(histogram, n_elements, n_classes) ==
  LET el == [i \in 0..(n_classes - 1) |-> Frac(histogram[i], n_elements)]
      sq == [i \in 0..(n_classes - 1) |-> RMul(el[i], el[i])]
  IN  RSum(sq, 0, n_classes - 1)

\* calc_gini_coef dividing the counts by n_classes
calc_gini_coef_ByClasses(histogram, n_elements, n_classes) ==
  LET el == [i \in 0..(n_classes - 1) |-> Frac(histogram[i], n_classes)]
      sq == [i \in 0..(n_classes - 1) |-> RMul(el[i], el[i])]
  IN  RSub(One, RSum(sq, 0, n_classes - 1))

\* calc_gini_coef: 1 - sum_i (histogram[i] / n_elements)^2
calc_gini_coef(histogram, n_elements, n_classes) ==
  LET el == [i \in 0..(n_classes - 1) |-> Frac(histogram[i], n_elements)]
      sq == [i \in 0..(n_classes - 1) |-> RMul(el[i], el[i])]
  IN  RSub(One, RSum(sq, 0, n_classes - 1))

\* calc_entropy without the final negation
calc_entropy_Positive(histogram, n_elements, n_classes) ==
  LET t == [i \in 0..(n_classes - 1) |->
              RMul(Frac(histogram[i], n_elements), Log1p(histogram[i], n_elements))]
  IN  RSum(t, 0, n_classes - 1)

\* calc_entropy: - sum_i el * log(el + 1.0), el = histogram[i] / n_elements
calc_entropy(histogram, n_elements, n_classes) ==
  LET t == [i \in 0..(n_classes - 1) |->
              RMul(Frac(histogram[i], n_elements), Log1p(histogram[i], n_elements))]
  IN  RNeg(RSum(t, 0, n_classes - 1))

\* calc_impurity_cls taking gini only for the tag "gini"
calc_impurity_cls_Strict(criterion, histogram, n_elements, n_classes) ==
  IF criterion = "gini"
  THEN calc_gini_coef(histogram, n_elements, n_classes)
  ELSE calc_entropy(histogram, n_elements, n_classes)

\* calc_impurity_cls: strcmp(criterion, "entropy") == 0 ? entropy : gini
calc_impurity_cls(criterion, histogram, n_elements, n_classes) ==
  IF criterion = "entropy"
  THEN calc_entropy(histogram, n_elements, n_classes)
  ELSE calc_gini_coef(histogram, n_elements, n_classes)

\* histogram of the labels y[i], i in 0..n_elements-1, over n_classes bins
Histogram(y, n_elements, n_classes) ==
  [c \in 0..(n_classes - 1) |-> Cardinality({i \in 0..(n_elements - 1) : y[i] = c})]

\* iter_node_impurity_cls / node_impurity_cls: impurity of a whole node
node_impurity_cls(criterion, y, n_elements, n_classes) ==
  calc_impurity_cls(criterion, Histogram(y, n_elements, n_classes), n_elements, n_classes)

(***************************************************************************)
(* Criterion Evaluator: regression.  Targets are a flat row-major array:   *)
(* the j-th output of sample i is vecs[i * n_outputs + j].                 *)
(***************************************************************************)
\* sum of the integers v[lo], ..., v[hi]
RECURSIVE ISum(_, _, _)
ISum(v, lo, hi) == IF lo > hi THEN 0 ELSE ISum(v, lo, hi - 1) + v[hi]

\* calc_impurity_ of the regressor: mean over the n_elements samples
\* order[order_offset .. order_offset + n_elements) of the mean over the outputs
\* of |el| ("mae") or el * el (any other tag), el = target - mean_vec[j]
calc_impurity_reg(criterion, order, vecs, mean_vec, n_elements, n_outputs, order_offset) ==
  LET is_mae == criterion = "mae"
      err == [i \in 0..(n_elements - 1) |->
                LET el == [j \in 0..(n_outputs - 1) |->
                             RSub(Num(vecs[order[order_offset + i] * n_outputs + j]),
                                  mean_vec[j])]
                    dev == [j \in 0..(n_outputs - 1) |->
                              IF is_mae THEN RAbs(el[j]) ELSE RMul(el[j], el[j])]
                IN  RDiv(RSum(dev, 0, n_outputs - 1), Num(n_outputs))]
  IN  RDiv(RSum(err, 0, n_elements - 1), Num(n_elements))

\* the positions of the order that calc_impurity_ reads: order[order_offset + i]
ImpurityReads(n_elements, order_offset) == {order_offset + i : i \in 0..(n_elements - 1)}

\* iter_node_impurity_ of the regressor: order[i] = i, mean_y[j] = sum_i y[i][j] / n
node_impurity_reg(criterion, y, n_elements, n_outputs) ==
  LET order == [i \in 0..(n_elements - 1) |-> i]
      mean_y == [j \in 0..(n_outputs - 1) |->
                   Frac(ISum([i \in 0..(n_elements - 1) |-> y[i * n_outputs + j]],
                             0, n_elements - 1),
                        n_elements)]
  IN  calc_impurity_reg(criterion, order, y, mean_y, n_elements, n_outputs, 0)

(***************************************************************************)
(* State: the arguments of one call (lp), the locals of the scanner, and   *)
(* history variables (cands, dflt_params, oob) that record what the scan   *)
(* did without influencing it.                                             *)
(***************************************************************************)
VARIABLES
  lp,            \* na_loop_t arguments and options of the call
  pc,            \* position in the scanner: init, while, inner, store, done; in the
                 \* earlier scanners: legacy_for, legacy_while, list_while,
                 \* list_inner, returned, raise; in the checks: enter, for, ...
  params,        \* output array (4 entries; 2 for the gradient scanner)
  curr_pos, next_pos, n_l_elements, n_r_elements,
  curr_el, last_el, next_el,
  l_histogram, r_histogram,   \* classification
  l_sum_y, r_sum_y,           \* regression
  l_grad, l_hess,             \* gradient boosting
  threshold, gain_max,        \* gradient boosting: best so far
  cands,         \* history: the candidates evaluated so far, in scan order
  dflt_params,   \* history: params of the same scan under the default criterion
  oob,           \* history: an element past the end of the order was read
  ret,           \* homogeneity checks: *ret / *res (TRUE for 1 / Qtrue)
  chk_i, chk_j,  \* homogeneity checks: the loop indices i and j
  y_reads,       \* history: the indices of y the comparisons have read, in order
  opt_params,    \* record of the scanner run after the order-based one
  l_target_vecs, r_target_vecs   \* its lists of target vectors (regression)

vars == <<lp, pc, params, curr_pos, next_pos, n_l_elements, n_r_elements,
          curr_el, last_el, next_el, l_histogram, r_histogram, l_sum_y, r_sum_y,
          l_grad, l_hess, threshold, gain_max, cands, dflt_params, oob,
          ret, chk_i, chk_j, y_reads, opt_params, l_target_vecs, r_target_vecs>>

scan_ctl == <<curr_pos, next_pos, n_l_elements, n_r_elements, curr_el, last_el, next_el>>
cls_stats == <<l_histogram, r_histogram>>
reg_stats == <<l_sum_y, r_sum_y>>
greg_stats == <<l_grad, l_hess, threshold, gain_max>>
chk == <<ret, chk_i, chk_j, y_reads>>
twin == <<opt_params, l_target_vecs, r_target_vecs>>

(***************************************************************************)
(* Inputs of a call.                                                       *)
(***************************************************************************)
Idx(n) == 0..(n - 1)
IdOrder(n) == [i \in Idx(n) |-> i]
Perms(n) == {p \in [Idx(n) -> Idx(n)] : \A i, j \in Idx(n) : p[i] = p[j] => i = j}

\* the feature column read through the order is non-decreasing
IsSorted(n, f, o) == \A i \in Idx(n - 1) : f[o[i]] <= f[o[i + 1]]

Cols(n) == [Idx(n) -> FeatVals]

\* the ascending sort of f that keeps (stable) or reverses ties
SortOrder(n, f, stable) ==
  CHOOSE p \in Perms(n) :
    /\ IsSorted(n, f, p)
    /\ \A i \in Idx(n - 1) : f[p[i]] = f[p[i + 1]] => (p[i] < p[i + 1]) = stable

\* the orders a call is made with: two sorts of f, and the order 0..n-1 whatever f
Orders(n, f) == {SortOrder(n, f, TRUE), SortOrder(n, f, FALSE), IdOrder(n)}

ClsCriteria == {"gini", "entropy", "logloss"}
RegCriteria == {"mse", "mae", "huber"}
WrongImpurity == Frac(1, 4)

Call(kind, n, o, f, y, n_classes, n_outputs, criterion, impurity) ==
  [kind |-> kind, n_elements |-> n, o |-> o, f |-> f, y |-> y,
   n_classes |-> n_classes, n_outputs |-> n_outputs,
   criterion |-> criterion, impurity |-> impurity,
   g |-> << >>, h |-> << >>,
   sum_gradient |-> 0, sum_hessian |-> 0, reg_lambda |-> 0]

\* find_split_params_cls(criterion, impurity, order, features, labels, n_classes)
ClsCalls(n, f, o) ==
  { Call("cls", n, o, f, y, nc, 0, c.criterion,
         IF c.exact THEN node_impurity_cls(c.criterion, y, n, nc) ELSE WrongImpurity) :
      y \in UNION {[Idx(n) -> Idx(k)] : k \in ClassCounts},
      nc \in ClassCounts,
      c \in [criterion : ClsCriteria, exact : BOOLEAN] }

\* find_split_params_reg(criterion, impurity, order, features, targets);
\* two outputs only for nodes of at most MaxN - 1 samples
RegCallsOf(n, f, o, no) ==
  { LET y == [k \in Idx(n * no) |-> v[k \div no][(k % no) + 1]]
    IN  Call("reg", n, o, f, y, 0, no, c.criterion,
             IF c.exact THEN node_impurity_reg(c.criterion, y, n, no) ELSE WrongImpurity) :
      v \in [Idx(n) -> TargetVecs[no]],
      c \in [criterion : RegCriteria, exact : BOOLEAN] }

RegCalls(n, f, o) ==
  UNION { RegCallsOf(n, f, o, no) : no \in {k \in 1..Len(TargetVecs) : k = 1 \/ n < MaxN} }

\* find_split_params_grad_reg(order, features, gradients, hessians,
\*                            sum_gradient, sum_hessian, reg_lambda)
GregCalls(n, f, o) ==
  { [Call("greg", n, o, f, << >>, 0, 0, "", Zero) EXCEPT
       !.g = [i \in Idx(n) |-> gh[i][1]],
       !.h = [i \in Idx(n) |-> gh[i][2]],
       !.sum_gradient = ISum([i \in Idx(n) |-> gh[i][1]], 0, n - 1) + off,
       !.sum_hessian = ISum([i \in Idx(n) |-> gh[i][2]], 0, n - 1) + off,
       !.reg_lambda = lambda] :
      gh \in [Idx(n) -> GradHess],
      off \in {0, 1},
      lambda \in Lambdas }

\* the 0-based array holding the entries of a tuple
Arr(seq) == [i \in Idx(Len(seq)) |-> seq[i + 1]]

\* features [1,2,2,3] in the order 0,1,2,3 with labels [0,0,1,1], two classes,
\* gini, and the node's own gini as whole impurity
ScenarioA ==
  Call("cls", 4, IdOrder(4), Arr(<<1, 2, 2, 3>>), Arr(<<0, 0, 1, 1>>), 2, 0, "gini",
       node_impurity_cls("gini", Arr(<<0, 0, 1, 1>>), 4, 2))

\* Scenario D: four samples of distinct ascending feature values with gradients
\* [1,-1,2,-2], hessians [1,1,1,1], sum_gradient 0, sum_hessian 4, reg_lambda 1
ScenarioD ==
  [Call("greg", 4, IdOrder(4), Arr(<<1, 2, 3, 4>>), << >>, 0, 0, "", Zero) EXCEPT
     !.g = Arr(<<1, -1, 2, -2>>),
     !.h = Arr(<<1, 1, 1, 1>>),
     !.sum_gradient = 0,
     !.sum_hessian = 4,
     !.reg_lambda = 1]

\* Scenario C: four samples of distinct ascending feature values with the targets
\* [[1],[2],[3],[4]], mse, and the node's own mse as whole impurity
ScenarioC ==
  Call("reg", 4, IdOrder(4), Arr(<<1, 2, 3, 4>>), Arr(<<1, 2, 3, 4>>), 0, 1, "mse",
       node_impurity_reg("mse", Arr(<<1, 2, 3, 4>>), 4, 1))

Scenarios == {ScenarioA, ScenarioC, ScenarioD}

MkParams(a, b, c, d) == [i \in 0..3 |-> CASE i = 0 -> a [] i = 1 -> b [] i = 2 -> c [] OTHER -> d]

Init ==
  /\ \/ \E n \in 1..MaxN : \E f \in Cols(n) : \E o \in Orders(n, f) :
          lp \in ClsCalls(n, f, o) \cup RegCalls(n, f, o) \cup GregCalls(n, f, o)
     \/ lp \in Scenarios
  /\ pc = IF lp.kind = "greg" THEN "while" ELSE "init"
  /\ params = MkParams(Zero, Zero, Zero, Zero)
  /\ curr_pos = 0
  /\ next_pos = 0
  /\ n_l_elements = 0
  /\ n_r_elements = lp.n_elements
  /\ curr_el = lp.f[lp.o[0]]
  /\ last_el = lp.f[lp.o[lp.n_elements - 1]]
  /\ next_el = 0
  /\ l_histogram = [c \in Idx(lp.n_classes) |-> 0]
  /\ r_histogram = [c \in Idx(lp.n_classes) |-> 0]
  /\ l_sum_y = [j \in Idx(lp.n_outputs) |-> 0]
  /\ r_sum_y = [j \in Idx(lp.n_outputs) |-> 0]
  /\ l_grad = 0
  /\ l_hess = 0
  /\ threshold = Num(curr_el)
  /\ gain_max = Zero
  /\ cands = << >>
  /\ dflt_params = MkParams(Zero, Zero, Zero, Zero)
  /\ oob = FALSE
  /\ ret = TRUE
  /\ chk_i = 0
  /\ chk_j = 0
  /\ y_reads = << >>
  /\ opt_params = MkParams(Zero, Zero, Zero, Zero)
  /\ l_target_vecs = << >>
  /\ r_target_vecs = << >>

(***************************************************************************)
(* The scan loop shared by the scanners.                                   *)
(***************************************************************************)
\* f[o[pos]]; past the end of the arrays the value read is arbitrary
ReadF(pos) ==
  IF pos < lp.n_elements THEN {lp.f[lp.o[pos]]} ELSE FeatVals \cup {0}

\* LoopTest that enters the body at the first position only
LoopTest_FirstOnly(exit_pc) ==
  /\ pc = "while"
  /\ IF curr_pos < lp.n_elements /\ curr_el # last_el /\ curr_pos = 0
     THEN /\ next_el' \in ReadF(next_pos)
          /\ oob' = (oob \/ next_pos >= lp.n_elements)
          /\ pc' = "inner"
     ELSE /\ pc' = exit_pc
          /\ UNCHANGED <<next_el, oob>>
  /\ UNCHANGED <<lp, chk, twin, params, curr_pos, next_pos, n_l_elements, n_r_elements,
                 curr_el, last_el, cls_stats, reg_stats, greg_stats, cands, dflt_params>>

\* LoopTest without the comparison of curr_el with last_el
LoopTest_NoLast(exit_pc) ==
  /\ pc = "while"
  /\ IF curr_pos < lp.n_elements
     THEN /\ next_el' \in ReadF(next_pos)
          /\ oob' = (oob \/ next_pos >= lp.n_elements)
          /\ pc' = "inner"
     ELSE /\ pc' = exit_pc
          /\ UNCHANGED <<next_el, oob>>
  /\ UNCHANGED <<lp, chk, twin, params, curr_pos, next_pos, n_l_elements, n_r_elements,
                 curr_el, last_el, cls_stats, reg_stats, greg_stats, cands, dflt_params>>

\* while (curr_pos < n_elements && curr_el != last_el) { next_el = f[o[next_pos]];
LoopTest(exit_pc) ==
  /\ pc = "while"
  /\ IF curr_pos < lp.n_elements /\ curr_el # last_el
     THEN /\ next_el' \in ReadF(next_pos)
          /\ oob' = (oob \/ next_pos >= lp.n_elements)
          /\ pc' = "inner"
     ELSE /\ pc' = exit_pc
          /\ UNCHANGED <<next_el, oob>>
  /\ UNCHANGED <<lp, chk, twin, params, curr_pos, next_pos, n_l_elements, n_r_elements,
                 curr_el, last_el, cls_stats, reg_stats, greg_stats, cands, dflt_params>>

\* InnerTest that lets one sample through per candidate
InnerTest_Once == next_pos < lp.n_elements /\ next_el = curr_el /\ next_pos = curr_pos

\* InnerTest with <= for ==
InnerTest_Le == next_pos < lp.n_elements /\ next_el <= curr_el

\* InnerTest without the comparison of next_el with curr_el
InnerTest_NoValue == next_pos < lp.n_elements

\* while (next_pos < n_elements && next_el == curr_el)
InnerTest == next_pos < lp.n_elements /\ next_el = curr_el

\* Advance without the increment of next_pos
Advance_NoStep ==
  /\ next_pos' = next_pos
  /\ next_el' \in ReadF(next_pos)
  /\ oob' = (oob \/ next_pos >= lp.n_elements)

\* next_pos++; next_el = f[o[next_pos]];
Advance ==
  /\ next_pos' = next_pos + 1
  /\ next_el' \in ReadF(next_pos + 1)
  /\ oob' = (oob \/ next_pos + 1 >= lp.n_elements)

\* if (next_pos == n_elements) break; curr_pos = next_pos; curr_el = f[o[curr_pos]];
EndOfIteration(exit_pc) ==
  IF next_pos = lp.n_elements
  THEN pc' = exit_pc /\ UNCHANGED <<curr_pos, curr_el>>
  ELSE pc' = "while" /\ curr_pos' = next_pos /\ curr_el' = lp.f[lp.o[next_pos]]

\* Midpoint taking the current value itself
Midpoint_Curr == Num(curr_el)

\* Midpoint taking the next value itself
Midpoint_Next == Num(next_el)

\* 0.5 * (curr_el + next_el)
Midpoint == Frac(curr_el + next_el, 2)

\* Gain without the division by n_elements
Gain_NoDivide(l_impurity, r_impurity) ==
  RSub(lp.impurity,
       RAdd(RMul(Num(n_l_elements), l_impurity), RMul(Num(n_r_elements), r_impurity)))

\* w_impurity - (n_l_elements * l_impurity + n_r_elements * r_impurity) / n_elements
Gain(l_impurity, r_impurity) ==
  RSub(lp.impurity,
       RDiv(RAdd(RMul(Num(n_l_elements), l_impurity), RMul(Num(n_r_elements), r_impurity)),
            Num(lp.n_elements)))

\* Better that takes every candidate
Better_Always(p, l_impurity, r_impurity, gain) ==
  MkParams(l_impurity, r_impurity, Midpoint, gain)

\* Better storing the two impurities in each other's place
Better_Swapped(p, l_impurity, r_impurity, gain) ==
  IF RGt(gain, p[3]) THEN MkParams(r_impurity, l_impurity, Midpoint, gain) ELSE p

\* Better with >= for >
Better_Ge(p, l_impurity, r_impurity, gain) ==
  IF RGe(gain, p[3]) THEN MkParams(l_impurity, r_impurity, Midpoint, gain) ELSE p

\* Better that leaves the threshold as it was
Better_KeepThreshold(p, l_impurity, r_impurity, gain) ==
  IF RGt(gain, p[3]) THEN MkParams(l_impurity, r_impurity, p[2], gain) ELSE p

\* if (gain > params[3]) { params[0..3] = candidate }
Better(p, l_impurity, r_impurity, gain) ==
  IF RGt(gain, p[3]) THEN MkParams(l_impurity, r_impurity, Midpoint, gain) ELSE p

Candidate(l_impurity, r_impurity, gain) ==
  [pos |-> next_pos, curr_el |-> curr_el, next_el |-> next_el,
   n_l |-> n_l_elements, n_r |-> n_r_elements,
   l_impurity |-> l_impurity, r_impurity |-> r_impurity,
   threshold |-> Midpoint, gain |-> gain]

(***************************************************************************)
(* Classification scanner: iter_find_split_params_cls.                     *)
(***************************************************************************)
\* params[0..3] = {0, w_impurity, curr_el, 0}; r_histogram[y[o[i]]] += 1 for all i
ClsInit ==
  /\ pc = "init" /\ lp.kind = "cls"
  /\ params' = MkParams(Zero, lp.impurity, Num(curr_el), Zero)
  /\ dflt_params' = MkParams(Zero, lp.impurity, Num(curr_el), Zero)
  /\ r_histogram' = [c \in Idx(lp.n_classes) |->
                       Cardinality({i \in Idx(lp.n_elements) : lp.y[lp.o[i]] = c})]
  /\ pc' = "while"
  /\ UNCHANGED <<lp, chk, twin, scan_ctl, l_histogram, reg_stats, greg_stats, cands, oob>>

ClsLoop == lp.kind = "cls" /\ LoopTest("done")

\* ClsMove without the update of the two counts
ClsMove_NoCounts ==
  /\ pc = "inner" /\ lp.kind = "cls"
  /\ InnerTest
  /\ l_histogram' = [l_histogram EXCEPT ![lp.y[lp.o[next_pos]]] = @ + 1]
  /\ r_histogram' = [r_histogram EXCEPT ![lp.y[lp.o[next_pos]]] = @ - 1]
  /\ Advance
  /\ UNCHANGED <<lp, chk, twin, pc, params, curr_pos, curr_el, last_el, n_l_elements,
                 n_r_elements, reg_stats, greg_stats, cands, dflt_params>>

\* ClsMove without the decrement of the right histogram
ClsMove_NoDecrement ==
  /\ pc = "inner" /\ lp.kind = "cls"
  /\ InnerTest
  /\ l_histogram' = [l_histogram EXCEPT ![lp.y[lp.o[next_pos]]] = @ + 1]
  /\ n_l_elements' = n_l_elements + 1
  /\ n_r_elements' = n_r_elements - 1
  /\ Advance
  /\ UNCHANGED <<lp, chk, twin, pc, params, curr_pos, curr_el, last_el, r_histogram, reg_stats,
                 greg_stats, cands, dflt_params>>

\* l_histogram[y[o[next_pos]]] += 1; n_l_elements++; r_histogram[...] -= 1; n_r_elements--;
ClsMove ==
  /\ pc = "inner" /\ lp.kind = "cls"
  /\ InnerTest
  /\ l_histogram' = [l_histogram EXCEPT ![lp.y[lp.o[next_pos]]] = @ + 1]
  /\ n_l_elements' = n_l_elements + 1
  /\ r_histogram' = [r_histogram EXCEPT ![lp.y[lp.o[next_pos]]] = @ - 1]
  /\ n_r_elements' = n_r_elements - 1
  /\ Advance
  /\ UNCHANGED <<lp, chk, twin, pc, params, curr_pos, curr_el, last_el, reg_stats, greg_stats,
                 cands, dflt_params>>

\* gain of the new split, update of the optimal parameters, end of the iteration
ClsEval ==
  /\ pc = "inner" /\ lp.kind = "cls"
  /\ ~InnerTest
  /\ LET l_impurity == calc_impurity_cls(lp.criterion, l_histogram, n_l_elements, lp.n_classes)
         r_impurity == calc_impurity_cls(lp.criterion, r_histogram, n_r_elements, lp.n_classes)
         gain == Gain(l_impurity, r_impurity)
         l_dflt == calc_gini_coef(l_histogram, n_l_elements, lp.n_classes)
         r_dflt == calc_gini_coef(r_histogram, n_r_elements, lp.n_classes)
     IN  /\ params' = Better(params, l_impurity, r_impurity, gain)
         /\ dflt_params' = Better(dflt_params, l_dflt, r_dflt, Gain(l_dflt, r_dflt))
         /\ cands' = Append(cands, Candidate(l_impurity, r_impurity, gain))
  /\ EndOfIteration("done")
  /\ UNCHANGED <<lp, chk, twin, next_pos, n_l_elements, n_r_elements, last_el, next_el,
                 cls_stats, reg_stats, greg_stats, oob>>

(***************************************************************************)
(* Regression scanner: iter_find_split_params_ of the regressor.           *)
(***************************************************************************)
\* params[0..3] = {0, w_impurity, f[order[0]], 0}; r_sum_y[j] += y[order[i]][j] for all i
RegInit ==
  /\ pc = "init" /\ lp.kind = "reg"
  /\ params' = MkParams(Zero, lp.impurity, Num(lp.f[lp.o[0]]), Zero)
  /\ dflt_params' = MkParams(Zero, lp.impurity, Num(lp.f[lp.o[0]]), Zero)
  /\ r_sum_y' = [j \in Idx(lp.n_outputs) |->
                   ISum([i \in Idx(lp.n_elements) |-> lp.y[lp.o[i] * lp.n_outputs + j]],
                        0, lp.n_elements - 1)]
  /\ pc' = "while"
  /\ UNCHANGED <<lp, chk, twin, scan_ctl, l_sum_y, cls_stats, greg_stats, cands, oob>>

RegLoop == lp.kind = "reg" /\ LoopTest("done")

\* RegMove adding the target of sample next_pos, not of sample order[next_pos]
RegMove_NoOrder ==
  /\ pc = "inner" /\ lp.kind = "reg"
  /\ InnerTest
  /\ l_sum_y' = [j \in Idx(lp.n_outputs) |->
                   l_sum_y[j] + lp.y[next_pos * lp.n_outputs + j]]
  /\ r_sum_y' = [j \in Idx(lp.n_outputs) |->
                   r_sum_y[j] - lp.y[lp.o[next_pos] * lp.n_outputs + j]]
  /\ n_l_elements' = n_l_elements + 1
  /\ n_r_elements' = n_r_elements - 1
  /\ Advance
  /\ UNCHANGED <<lp, chk, twin, pc, params, curr_pos, curr_el, last_el, cls_stats, greg_stats,
                 cands, dflt_params>>

\* RegMove without the increment of n_l_elements
RegMove_NoLeft ==
  /\ pc = "inner" /\ lp.kind = "reg"
  /\ InnerTest
  /\ l_sum_y' = [j \in Idx(lp.n_outputs) |->
                   l_sum_y[j] + lp.y[lp.o[next_pos] * lp.n_outputs + j]]
  /\ r_sum_y' = [j \in Idx(lp.n_outputs) |->
                   r_sum_y[j] - lp.y[lp.o[next_pos] * lp.n_outputs + j]]
  /\ n_r_elements' = n_r_elements - 1
  /\ Advance
  /\ UNCHANGED <<lp, chk, twin, pc, params, curr_pos, curr_el, last_el, cls_stats, greg_stats,
                 cands, dflt_params, n_l_elements>>

\* l_sum_y[j] += y[order[next_pos]][j]; r_sum_y[j] -= ...; n_l_elements++; n_r_elements--;
RegMove ==
  /\ pc = "inner" /\ lp.kind = "reg"
  /\ InnerTest
  /\ l_sum_y' = [j \in Idx(lp.n_outputs) |->
                   l_sum_y[j] + lp.y[lp.o[next_pos] * lp.n_outputs + j]]
  /\ r_sum_y' = [j \in Idx(lp.n_outputs) |->
                   r_sum_y[j] - lp.y[lp.o[next_pos] * lp.n_outputs + j]]
  /\ n_l_elements' = n_l_elements + 1
  /\ n_r_elements' = n_r_elements - 1
  /\ Advance
  /\ UNCHANGED <<lp, chk, twin, pc, params, curr_pos, curr_el, last_el, cls_stats, greg_stats,
                 cands, dflt_params>>

\* MeanVec dividing by the size of the node
MeanVec_ByNode(sum_y, n) == [j \in Idx(lp.n_outputs) |-> Frac(sum_y[j], lp.n_elements)]

\* l_mean_y[j] = l_sum_y[j] / n_l_elements
MeanVec(sum_y, n) == [j \in Idx(lp.n_outputs) |-> Frac(sum_y[j], n)]

\* means, impurities through the order (offsets 0 and next_pos), gain, update
RegEval ==
  /\ pc = "inner" /\ lp.kind = "reg"
  /\ ~InnerTest
  /\ LET l_mean_y == MeanVec(l_sum_y, n_l_elements)
         r_mean_y == MeanVec(r_sum_y, n_r_elements)
         Imp(crit, mean_y, n, offset) ==
           calc_impurity_reg(crit, lp.o, lp.y, mean_y, n, lp.n_outputs, offset)
         l_impurity == Imp(lp.criterion, l_mean_y, n_l_elements, 0)
         r_impurity == Imp(lp.criterion, r_mean_y, n_r_elements, next_pos)
         gain == Gain(l_impurity, r_impurity)
         l_dflt == Imp("mse", l_mean_y, n_l_elements, 0)
         r_dflt == Imp("mse", r_mean_y, n_r_elements, next_pos)
     IN  /\ params' = Better(params, l_impurity, r_impurity, gain)
         /\ dflt_params' = Better(dflt_params, l_dflt, r_dflt, Gain(l_dflt, r_dflt))
         /\ cands' = Append(cands, Candidate(l_impurity, r_impurity, gain))
  /\ EndOfIteration("done")
  /\ UNCHANGED <<lp, chk, twin, next_pos, n_l_elements, n_r_elements, last_el, next_el,
                 cls_stats, reg_stats, greg_stats, oob>>

(***************************************************************************)
(* Gradient-boosting scanner: iter_find_split_params_grad_reg.             *)
(***************************************************************************)
GregLoop == lp.kind = "greg" /\ LoopTest("store")

\* GregMove subtracting the hessian
GregMove_Minus ==
  /\ pc = "inner" /\ lp.kind = "greg"
  /\ InnerTest
  /\ l_grad' = l_grad + lp.g[lp.o[next_pos]]
  /\ l_hess' = l_hess - lp.h[lp.o[next_pos]]
  /\ Advance
  /\ UNCHANGED <<lp, chk, twin, pc, params, curr_pos, n_l_elements, n_r_elements, curr_el, last_el,
                 cls_stats, reg_stats, threshold, gain_max, cands, dflt_params>>

\* l_grad += g[o[next_pos]]; l_hess += h[o[next_pos]];
GregMove ==
  /\ pc = "inner" /\ lp.kind = "greg"
  /\ InnerTest
  /\ l_grad' = l_grad + lp.g[lp.o[next_pos]]
  /\ l_hess' = l_hess + lp.h[lp.o[next_pos]]
  /\ Advance
  /\ UNCHANGED <<lp, chk, twin, pc, params, curr_pos, n_l_elements, n_r_elements, curr_el, last_el,
                 cls_stats, reg_stats, threshold, gain_max, cands, dflt_params>>

\* GregGain without the term of the whole node
GregGain_NoTotal(lg, lh) ==
  RAdd(Frac(lg * lg, lh + lp.reg_lambda),
       Frac((lp.sum_gradient - lg) * (lp.sum_gradient - lg),
            (lp.sum_hessian - lh) + lp.reg_lambda))

\* GregGain without the term of the right side
GregGain_LeftOnly(lg, lh) ==
  RSub(Frac(lg * lg, lh + lp.reg_lambda),
       Frac(lp.sum_gradient * lp.sum_gradient, lp.sum_hessian + lp.reg_lambda))

\* l_grad^2 / (l_hess + lambda) + r_grad^2 / (r_hess + lambda) - s_grad^2 / (s_hess + lambda)
GregGain(lg, lh) ==
  LET r_grad == lp.sum_gradient - lg
      r_hess == lp.sum_hessian - lh
  IN  RSub(RAdd(Frac(lg * lg, lh + lp.reg_lambda),
                Frac(r_grad * r_grad, r_hess + lp.reg_lambda)),
           Frac(lp.sum_gradient * lp.sum_gradient, lp.sum_hessian + lp.reg_lambda))

\* gain of the new split; if (gain > gain_max) { threshold = midpoint; gain_max = gain; }
GregEval ==
  /\ pc = "inner" /\ lp.kind = "greg"
  /\ ~InnerTest
  /\ LET gain == GregGain(l_grad, l_hess)
     IN  /\ IF RGt(gain, gain_max)
            THEN threshold' = Midpoint /\ gain_max' = gain
            ELSE UNCHANGED <<threshold, gain_max>>
         /\ cands' = Append(cands, Candidate(Zero, Zero, gain))
  /\ EndOfIteration("store")
  /\ UNCHANGED <<lp, chk, twin, params, next_pos, n_l_elements, n_r_elements, last_el, next_el,
                 cls_stats, reg_stats, l_grad, l_hess, dflt_params, oob>>

\* params[0] = threshold; params[1] = gain_max;
GregStore ==
  /\ pc = "store" /\ lp.kind = "greg"
  /\ params' = [i \in 0..1 |-> IF i = 0 THEN threshold ELSE gain_max]
  /\ pc' = "done"
  /\ UNCHANGED <<lp, chk, twin, scan_ctl, cls_stats, reg_stats, greg_stats, cands, dflt_params, oob>>

Next ==
  \/ ClsInit \/ ClsLoop \/ ClsMove \/ ClsEval
  \/ RegInit \/ RegLoop \/ RegMove \/ RegEval
  \/ GregLoop \/ GregMove \/ GregEval \/ GregStore

Spec == Init /\ [][Next]_vars

(***************************************************************************)
(* Homogeneity checks: iter_check_same_label (stop_growing? of the         *)
(* classifier) and iter_<type>_check_same_value (DEF_ITER_CHECK_SAME_VALUE,*)
(* with its tolerance mEPS).  One call per behaviour; an empty node is a   *)
(* valid argument of both.                                                 *)
(***************************************************************************)
LabelVals == {0, 1, 2}
TargetVals == {0, 1, 3}
EpsVals == {0, 1}
OutputCounts == {1, 2}

\* check_same_label(y)
SameLabelCallsOf(n) ==
  { [kind |-> "same_label", n_elements |-> n, n_outputs |-> 0, y |-> y, mEPS |-> 0] :
      y \in [Idx(n) -> LabelVals] }

SameLabelCalls == UNION {SameLabelCallsOf(n) : n \in 0..MaxN}

\* check_same_value(y) of a macro instance with tolerance mEPS; y is row-major
SameValueCallsOf(n, no) ==
  { [kind |-> "same_value", n_elements |-> n, n_outputs |-> no, y |-> y, mEPS |-> eps] :
      y \in [Idx(n * no) -> TargetVals], eps \in EpsVals }

SameValueCalls == UNION {SameValueCallsOf(n, no) : n \in 0..MaxN, no \in OutputCounts}

\* the state of the split scanners, which the checks do not touch
scanner ==
  <<params, scan_ctl, cls_stats, reg_stats, greg_stats, cands, dflt_params, oob, twin>>

InitSame ==
  /\ lp \in SameLabelCalls \cup SameValueCalls
  /\ pc = "enter"
  /\ ret = TRUE
  /\ chk_i = 0
  /\ chk_j = 0
  /\ y_reads = << >>
  /\ params = MkParams(Zero, Zero, Zero, Zero)
  /\ curr_pos = 0 /\ next_pos = 0 /\ n_l_elements = 0 /\ n_r_elements = 0
  /\ curr_el = 0 /\ last_el = 0 /\ next_el = 0
  /\ l_histogram = << >> /\ r_histogram = << >>
  /\ l_sum_y = << >> /\ r_sum_y = << >>
  /\ l_grad = 0 /\ l_hess = 0 /\ threshold = Zero /\ gain_max = Zero
  /\ cands = << >>
  /\ dflt_params = MkParams(Zero, Zero, Zero, Zero)
  /\ oob = FALSE
  /\ opt_params = MkParams(Zero, Zero, Zero, Zero)
  /\ l_target_vecs = << >>
  /\ r_target_vecs = << >>

\* *ret = 1; if (n_elements > 0) { label = y[0]; for (i = 0; ...
SameLabelEnter ==
  /\ pc = "enter" /\ lp.kind = "same_label"
  /\ ret' = TRUE
  /\ IF lp.n_elements > 0
     THEN pc' = "for" /\ chk_i' = 0 /\ y_reads' = Append(y_reads, 0)
     ELSE pc' = "return" /\ UNCHANGED <<chk_i, y_reads>>
  /\ UNCHANGED <<lp, chk_j, scanner>>

\* int32_t label = y[0];
label == lp.y[0]

\* i < n_elements and y[i] == label: i++
SameLabelNext ==
  /\ pc = "for" /\ lp.kind = "same_label"
  /\ chk_i < lp.n_elements
  /\ lp.y[chk_i] = label
  /\ y_reads' = Append(y_reads, chk_i)
  /\ chk_i' = chk_i + 1
  /\ UNCHANGED <<lp, pc, ret, chk_j, scanner>>

\* SameLabelBreak that goes on with the next label
SameLabelBreak_GoOn ==
  /\ pc = "for" /\ lp.kind = "same_label"
  /\ chk_i < lp.n_elements
  /\ lp.y[chk_i] # label
  /\ y_reads' = Append(y_reads, chk_i)
  /\ ret' = FALSE
  /\ chk_i' = chk_i + 1
  /\ UNCHANGED <<lp, pc, chk_j, scanner>>

\* if (y[i] != label) { *ret = 0; break; }
SameLabelBreak ==
  /\ pc = "for" /\ lp.kind = "same_label"
  /\ chk_i < lp.n_elements
  /\ lp.y[chk_i] # label
  /\ y_reads' = Append(y_reads, chk_i)
  /\ ret' = FALSE
  /\ pc' = "return"
  /\ UNCHANGED <<lp, chk_i, chk_j, scanner>>

\* i == n_elements: the loop ends
SameLabelEnd ==
  /\ pc = "for" /\ lp.kind = "same_label"
  /\ chk_i >= lp.n_elements
  /\ pc' = "return"
  /\ UNCHANGED <<lp, chk, scanner>>

\* *res = Qtrue; if (n_elements > 0) { for (i = 1; ...
SameValueEnter ==
  /\ pc = "enter" /\ lp.kind = "same_value"
  /\ ret' = TRUE
  /\ IF lp.n_elements > 0
     THEN pc' = "for_i" /\ chk_i' = 1
     ELSE pc' = "return" /\ UNCHANGED chk_i
  /\ UNCHANGED <<lp, chk_j, y_reads, scanner>>

\* for (i = 1; i < n_elements; i++) { for (j = 0; ...
SameValueOuter ==
  /\ pc = "for_i" /\ lp.kind = "same_value"
  /\ IF chk_i < lp.n_elements
     THEN pc' = "for_j" /\ chk_j' = 0
     ELSE pc' = "return" /\ UNCHANGED chk_j
  /\ UNCHANGED <<lp, ret, chk_i, y_reads, scanner>>

\* fabs(y[i * n_outputs + j] - y[j]) > mEPS
Differs(i, j) == Abs(lp.y[i * lp.n_outputs + j] - lp.y[j]) > lp.mEPS

\* j < n_outputs and the values are within mEPS: j++
SameValueNext ==
  /\ pc = "for_j" /\ lp.kind = "same_value"
  /\ chk_j < lp.n_outputs
  /\ ~Differs(chk_i, chk_j)
  /\ y_reads' = Append(y_reads, chk_i * lp.n_outputs + chk_j)
  /\ chk_j' = chk_j + 1
  /\ UNCHANGED <<lp, pc, ret, chk_i, scanner>>

\* if (fabs(...) > mEPS) { *res = Qfalse; break; }
SameValueBreak ==
  /\ pc = "for_j" /\ lp.kind = "same_value"
  /\ chk_j < lp.n_outputs
  /\ Differs(chk_i, chk_j)
  /\ y_reads' = Append(y_reads, chk_i * lp.n_outputs + chk_j)
  /\ ret' = FALSE
  /\ pc' = "after_j"
  /\ UNCHANGED <<lp, chk_i, chk_j, scanner>>

\* j == n_outputs: the inner loop ends
SameValueInnerEnd ==
  /\ pc = "for_j" /\ lp.kind = "same_value"
  /\ chk_j >= lp.n_outputs
  /\ pc' = "after_j"
  /\ UNCHANGED <<lp, chk, scanner>>

\* SameValueAfter that never leaves the outer loop early
SameValueAfter_GoOn ==
  /\ pc = "after_j" /\ lp.kind = "same_value"
  /\ pc' = "for_i" /\ chk_i' = chk_i + 1
  /\ UNCHANGED <<lp, ret, chk_j, y_reads, scanner>>

\* if (*res == Qfalse) break; otherwise i++
SameValueAfter ==
  /\ pc = "after_j" /\ lp.kind = "same_value"
  /\ IF ret = FALSE
     THEN pc' = "return" /\ UNCHANGED chk_i
     ELSE pc' = "for_i" /\ chk_i' = chk_i + 1
  /\ UNCHANGED <<lp, ret, chk_j, y_reads, scanner>>

NextSame ==
  \/ SameLabelEnter \/ SameLabelNext \/ SameLabelBreak \/ SameLabelEnd
  \/ SameValueEnter \/ SameValueOuter \/ SameValueNext \/ SameValueBreak
  \/ SameValueInnerEnd \/ SameValueAfter

SpecSame == InitSame /\ [][NextSame]_vars

(***************************************************************************)
(* The earlier scanners, run on the arguments of a finished order-based    *)
(* call so that the two records can be compared:                           *)
(*   find_split_params_cls of src/ext/rumale/rumale.c, over sorted_f,      *)
(*   sorted_y and uniqed_f (classification);                               *)
(*   iter_find_split_params_reg of src/ext/rumale/tree.c, which keeps the  *)
(*   target vectors of the two sides in lists (regression).                *)
(* Each is a call of its own: it initialises its locals and leaves its     *)
(* record in opt_params.                                                   *)
(***************************************************************************)
\* the arguments of the sorted-array scanner that correspond to (order, features, labels)
sorted_f == [i \in Idx(lp.n_elements) |-> lp.f[lp.o[i]]]
sorted_y == [i \in Idx(lp.n_elements) |-> lp.y[lp.o[i]]]
n_uniq_elements == Cardinality({lp.f[i] : i \in Idx(lp.n_elements)})
uniqed_f ==
  CHOOSE u \in [Idx(n_uniq_elements) -> {lp.f[i] : i \in Idx(lp.n_elements)}] :
    \A a, b \in Idx(n_uniq_elements) : a < b => u[a] < u[b]

\* opt_params = [0, w_impurity, uniqed_f[0], 0]; n_l_elements = 0; n_r_elements = n;
\* r_histogram counts sorted_y; the for loop starts with curr_pos = next_pos = 0
LegacyInit ==
  /\ pc = "done" /\ lp.kind = "cls"
  /\ opt_params' = MkParams(Zero, lp.impurity, Num(uniqed_f[0]), Zero)
  /\ n_l_elements' = 0
  /\ n_r_elements' = lp.n_elements
  /\ l_histogram' = [c \in Idx(lp.n_classes) |-> 0]
  /\ r_histogram' = [c \in Idx(lp.n_classes) |->
                       Cardinality({i \in Idx(lp.n_elements) : sorted_y[i] = c})]
  /\ curr_pos' = 0
  /\ next_pos' = 0
  /\ pc' = "legacy_for"
  /\ UNCHANGED <<lp, chk, params, curr_el, last_el, next_el, reg_stats, greg_stats,
                 cands, dflt_params, oob, l_target_vecs, r_target_vecs>>

\* for (...; curr_pos < n_uniq_elements - 1; ...) { curr_el = uniqed_f[curr_pos];
\* next_el = sorted_f[next_pos]; an entry past the end is nil, whose conversion raises
LegacyFor ==
  /\ pc = "legacy_for" /\ lp.kind = "cls"
  /\ IF curr_pos < n_uniq_elements - 1
     THEN /\ curr_el' = uniqed_f[curr_pos]
          /\ IF next_pos < lp.n_elements
             THEN next_el' = sorted_f[next_pos] /\ pc' = "legacy_while"
             ELSE pc' = "raise" /\ UNCHANGED next_el
     ELSE pc' = "returned" /\ UNCHANGED <<curr_el, next_el>>
  /\ UNCHANGED <<lp, chk, params, curr_pos, next_pos, n_l_elements, n_r_elements, last_el,
                 cls_stats, reg_stats, greg_stats, cands, dflt_params, oob, twin>>

\* LegacyTest with < for <=
LegacyTest_Lt == next_pos < lp.n_elements /\ next_el < curr_el

\* while (next_pos < n_elements && next_el <= curr_el)
LegacyTest == next_pos < lp.n_elements /\ next_el <= curr_el

\* increment l_histogram, n_l_elements++, decrement r_histogram, n_r_elements--,
\* next_el = sorted_f[++next_pos]
LegacyMove ==
  /\ pc = "legacy_while" /\ lp.kind = "cls"
  /\ LegacyTest
  /\ l_histogram' = [l_histogram EXCEPT ![sorted_y[next_pos]] = @ + 1]
  /\ n_l_elements' = n_l_elements + 1
  /\ r_histogram' = [r_histogram EXCEPT ![sorted_y[next_pos]] = @ - 1]
  /\ n_r_elements' = n_r_elements - 1
  /\ next_pos' = next_pos + 1
  /\ IF next_pos + 1 < lp.n_elements
     THEN next_el' = sorted_f[next_pos + 1] /\ pc' = pc
     ELSE pc' = "raise" /\ UNCHANGED next_el
  /\ UNCHANGED <<lp, chk, params, curr_pos, curr_el, last_el, reg_stats, greg_stats,
                 cands, dflt_params, oob, twin>>

\* gain of the new split, update of opt_params, curr_pos++
LegacyEval ==
  /\ pc = "legacy_while" /\ lp.kind = "cls"
  /\ ~LegacyTest
  /\ LET l_impurity == calc_impurity_cls(lp.criterion, l_histogram, n_l_elements, lp.n_classes)
         r_impurity == calc_impurity_cls(lp.criterion, r_histogram, n_r_elements, lp.n_classes)
     IN  opt_params' = Better(opt_params, l_impurity, r_impurity, Gain(l_impurity, r_impurity))
  /\ curr_pos' = curr_pos + 1
  /\ pc' = "legacy_for"
  /\ UNCHANGED <<lp, chk, params, next_pos, n_l_elements, n_r_elements, curr_el, last_el,
                 next_el, cls_stats, reg_stats, greg_stats, cands, dflt_params, oob,
                 l_target_vecs, r_target_vecs>>

\* calc_impurity_reg of tree.c: the mean vector is sum_vec / n_elements, the
\* impurity the mean over the vectors of the list of the mean over the outputs of
\* |diff| ("mae") or diff * diff (any other tag)
calc_impurity_reg_vecs(criterion, target_vecs, sum_vec) ==
  LET n_elements == Len(target_vecs)
      n_dimensions == Cardinality(DOMAIN target_vecs[1])
      mean_vec == [j \in Idx(n_dimensions) |-> Frac(sum_vec[j], n_elements)]
      calc_vec(vec_a, vec_b) ==
        LET diff == [j \in Idx(n_dimensions) |-> RSub(Num(vec_a[j]), vec_b[j])]
            term == [j \in Idx(n_dimensions) |->
                       IF criterion = "mae" THEN RAbs(diff[j]) ELSE RMul(diff[j], diff[j])]
        IN  RDiv(RSum(term, 0, n_dimensions - 1), Num(n_dimensions))
  IN  RDiv(RSum([i \in Idx(n_elements) |-> calc_vec(target_vecs[i + 1], mean_vec)],
                0, n_elements - 1),
           Num(n_elements))

\* params = [0, w_impurity, f[o[0]], 0]; every target vector, in the order, is
\* pushed to r_target_vecs and added to r_sum_vec
ListInit ==
  /\ pc = "done" /\ lp.kind = "reg"
  /\ opt_params' = MkParams(Zero, lp.impurity, Num(lp.f[lp.o[0]]), Zero)
  /\ curr_pos' = 0
  /\ next_pos' = 0
  /\ n_l_elements' = 0
  /\ n_r_elements' = lp.n_elements
  /\ curr_el' = lp.f[lp.o[0]]
  /\ last_el' = lp.f[lp.o[lp.n_elements - 1]]
  /\ l_sum_y' = [j \in Idx(lp.n_outputs) |-> 0]
  /\ r_sum_y' = [j \in Idx(lp.n_outputs) |->
                   ISum([i \in Idx(lp.n_elements) |-> lp.y[lp.o[i] * lp.n_outputs + j]],
                        0, lp.n_elements - 1)]
  /\ l_target_vecs' = << >>
  /\ r_target_vecs' = [i \in 1..lp.n_elements |->
                         [j \in Idx(lp.n_outputs) |-> lp.y[lp.o[i - 1] * lp.n_outputs + j]]]
  /\ pc' = "list_while"
  /\ UNCHANGED <<lp, chk, params, next_el, cls_stats, greg_stats, cands, dflt_params, oob>>

\* while (curr_pos < n_elements && curr_el != last_el) { next_el = f[o[next_pos]];
ListLoop ==
  /\ pc = "list_while" /\ lp.kind = "reg"
  /\ IF curr_pos < lp.n_elements /\ curr_el # last_el
     THEN /\ next_el' \in ReadF(next_pos)
          /\ oob' = (oob \/ next_pos >= lp.n_elements)
          /\ pc' = "list_inner"
     ELSE /\ pc' = "returned"
          /\ UNCHANGED <<next_el, oob>>
  /\ UNCHANGED <<lp, chk, params, curr_pos, next_pos, n_l_elements, n_r_elements,
                 curr_el, last_el, cls_stats, reg_stats, greg_stats, cands, dflt_params, twin>>

\* ListMove taking the target from the end of the right list
ListMove_Pop ==
  /\ pc = "list_inner" /\ lp.kind = "reg"
  /\ InnerTest
  /\ LET target == r_target_vecs[Len(r_target_vecs)]
     IN  /\ r_target_vecs' = SubSeq(r_target_vecs, 1, Len(r_target_vecs) - 1)
         /\ r_sum_y' = [j \in Idx(lp.n_outputs) |-> r_sum_y[j] - target[j]]
         /\ l_target_vecs' = Append(l_target_vecs, target)
         /\ l_sum_y' = [j \in Idx(lp.n_outputs) |-> l_sum_y[j] + target[j]]
  /\ n_r_elements' = n_r_elements - 1
  /\ n_l_elements' = n_l_elements + 1
  /\ Advance
  /\ UNCHANGED <<lp, chk, pc, params, curr_pos, curr_el, last_el, cls_stats, greg_stats,
                 cands, dflt_params, opt_params>>

\* target = shift(r_target_vecs); n_r_elements--; r_sum_vec -= target;
\* push(l_target_vecs, target); n_l_elements++; l_sum_vec += target; next_pos++; ...
ListMove ==
  /\ pc = "list_inner" /\ lp.kind = "reg"
  /\ InnerTest
  /\ LET target == Head(r_target_vecs)
     IN  /\ r_target_vecs' = Tail(r_target_vecs)
         /\ r_sum_y' = [j \in Idx(lp.n_outputs) |-> r_sum_y[j] - target[j]]
         /\ l_target_vecs' = Append(l_target_vecs, target)
         /\ l_sum_y' = [j \in Idx(lp.n_outputs) |-> l_sum_y[j] + target[j]]
  /\ n_r_elements' = n_r_elements - 1
  /\ n_l_elements' = n_l_elements + 1
  /\ Advance
  /\ UNCHANGED <<lp, chk, pc, params, curr_pos, curr_el, last_el, cls_stats, greg_stats,
                 cands, dflt_params, opt_params>>

\* impurities of the two lists, gain, update of the record, end of the iteration
ListEval ==
  /\ pc = "list_inner" /\ lp.kind = "reg"
  /\ ~InnerTest
  /\ LET l_impurity == calc_impurity_reg_vecs(lp.criterion, l_target_vecs, l_sum_y)
         r_impurity == calc_impurity_reg_vecs(lp.criterion, r_target_vecs, r_sum_y)
     IN  opt_params' = Better(opt_params, l_impurity, r_impurity, Gain(l_impurity, r_impurity))
  /\ IF next_pos = lp.n_elements
     THEN pc' = "returned" /\ UNCHANGED <<curr_pos, curr_el>>
     ELSE pc' = "list_while" /\ curr_pos' = next_pos /\ curr_el' = lp.f[lp.o[next_pos]]
  /\ UNCHANGED <<lp, chk, params, next_pos, n_l_elements, n_r_elements, last_el, next_el,
                 cls_stats, reg_stats, greg_stats, cands, dflt_params, oob,
                 l_target_vecs, r_target_vecs>>

\* a classification or regression call: the order-based scanner, then the earlier one
InitPair == Init /\ lp.kind \in {"cls", "reg"}

NextPair ==
  \/ ClsInit \/ ClsLoop \/ ClsMove \/ ClsEval
  \/ RegInit \/ RegLoop \/ RegMove \/ RegEval
  \/ LegacyInit \/ LegacyFor \/ LegacyMove \/ LegacyEval
  \/ ListInit \/ ListLoop \/ ListMove \/ ListEval

SpecPair == InitPair /\ [][NextPair]_vars

\* the value iter_check_same_label leaves in *ret: 1, then 0 at the first i with
\* y[i] != y[0] (n_elements > 0)
RECURSIVE same_label_from(_, _, _)
same_label_from(y, n_elements, i) ==
  IF i >= n_elements THEN TRUE
  ELSE IF y[i] # y[0] THEN FALSE
  ELSE same_label_from(y, n_elements, i + 1)

check_same_label(y, n_elements) == n_elements > 0 => same_label_from(y, n_elements, 0)

(***************************************************************************)
(* Properties.                                                             *)
(***************************************************************************)
N == lp.n_elements
Sorted == IsSorted(N, lp.f, lp.o)
Scanning == pc # "init"
Split == lp.kind \in {"cls", "reg"}

\* the record the call returns (at pc = "done")
RetGain == IF lp.kind = "greg" THEN params[1] ELSE params[3]
RetThreshold == IF lp.kind = "greg" THEN params[0] ELSE params[2]

\* the best record held during the scan
CurBest ==
  IF lp.kind = "greg"
  THEN [l_impurity |-> Zero, r_impurity |-> Zero, threshold |-> threshold, gain |-> gain_max]
  ELSE [l_impurity |-> params[0], r_impurity |-> params[1],
        threshold |-> params[2], gain |-> params[3]]

\* the record before any candidate
InitialBest ==
  [l_impurity |-> Zero, r_impurity |-> IF Split THEN lp.impurity ELSE Zero,
   threshold |-> Num(lp.f[lp.o[0]]), gain |-> Zero]

RecordOf(c) ==
  [l_impurity |-> c.l_impurity, r_impurity |-> c.r_impurity,
   threshold |-> c.threshold, gain |-> c.gain]

\* the first candidate, in scan order, whose gain no other candidate exceeds
FirstMax ==
  CHOOSE k \in 1..Len(cands) :
    /\ \A j \in 1..Len(cands) : RGe(cands[k].gain, cands[j].gain)
    /\ \A j \in 1..(k - 1) : cands[j].gain # cands[k].gain

\* C1: in the classification scan, after initialisation and after every move,
\* n_l_elements + n_r_elements = n and, for every class c,
\* l_histogram[c] + r_histogram[c] is the number of samples of the node with label c.
C1_HistogramsAddUp ==
  (lp.kind = "cls" /\ Scanning) =>
    /\ n_l_elements + n_r_elements = N
    /\ \A c \in Idx(lp.n_classes) :
         l_histogram[c] + r_histogram[c] = Cardinality({i \in Idx(N) : lp.y[i] = c})

C1_Witness ==
  /\ lp.kind = "cls" /\ pc = "inner" /\ ~InnerTest
  /\ n_l_elements = 2 /\ n_r_elements = 1
  /\ l_histogram[0] = 1 /\ l_histogram[1] = 1

\* C2: in the regression scan, for every output j, l_sum_y[j] + r_sum_y[j] is the
\* sum of the targets' j-th output over all samples of the node; before the first
\* move the left sums are zero and the right sums are the node's sums.
NodeSum(j) == ISum([i \in Idx(N) |-> lp.y[i * lp.n_outputs + j]], 0, N - 1)

C2_SumsAddUp ==
  (lp.kind = "reg" /\ Scanning) =>
    \A j \in Idx(lp.n_outputs) :
      /\ l_sum_y[j] + r_sum_y[j] = NodeSum(j)
      /\ next_pos = 0 => (l_sum_y[j] = 0 /\ r_sum_y[j] = NodeSum(j))

C2_Witness ==
  /\ lp.kind = "reg" /\ lp.n_outputs = 2 /\ pc = "inner" /\ ~InnerTest
  /\ lp.o # IdOrder(N)
  /\ l_sum_y[0] = 3 /\ l_sum_y[1] = 0 /\ r_sum_y[0] = 0 /\ r_sum_y[1] = 1

C4_FirstOfTheBest ==
  Scanning =>
    IF cands # << >> /\ RGt(cands[FirstMax].gain, Zero)
    THEN /\ CurBest = RecordOf(cands[FirstMax])
         /\ Sorted => \A j \in 1..Len(cands) :
                        cands[j].gain = CurBest.gain
                          => RGe(cands[j].threshold, CurBest.threshold)
    ELSE CurBest = InitialBest

C4_Witness ==
  /\ pc = "done" /\ lp.kind = "cls" /\ Sorted
  /\ Len(cands) = 2
  /\ cands[1].gain = cands[2].gain /\ RGt(cands[1].gain, Zero)
  /\ cands[1].l_impurity # cands[2].l_impurity
  /\ params[2] = cands[1].threshold /\ params[0] = cands[1].l_impurity

\* the samples of the node on either side of a threshold t
Below(t) == {i \in Idx(N) : RGe(t, Num(lp.f[i]))}
Above(t) == Idx(N) \ Below(t)

\* the samples of S in increasing order
Nth(S) ==
  CHOOSE p \in [Idx(Cardinality(S)) -> S] :
    \A a, b \in Idx(Cardinality(S)) : a < b => p[a] < p[b]

\* node impurity, by the call's criterion, of the node made of the samples of S
SubImpurity(S) ==
  LET m == Cardinality(S)
      no == lp.n_outputs
  IN  IF lp.kind = "cls"
      THEN node_impurity_cls(lp.criterion, [k \in Idx(m) |-> lp.y[Nth(S)[k]]], m, lp.n_classes)
      ELSE node_impurity_reg(lp.criterion,
                             [k \in Idx(m * no) |-> lp.y[Nth(S)[k \div no] * no + (k % no)]],
                             m, no)

\* the supplied whole impurity is the node impurity of the node itself
ExactImpurity ==
  lp.impurity = IF lp.kind = "cls"
                THEN node_impurity_cls(lp.criterion, lp.y, N, lp.n_classes)
                ELSE node_impurity_reg(lp.criterion, lp.y, N, lp.n_outputs)

ImpuritiesOfSides ==
  /\ params[0] = SubImpurity(Below(params[2]))
  /\ params[1] = SubImpurity(Above(params[2]))

\* C5 as stated: for a sorted order and the node's own whole impurity, the
\* returned left and right impurities are the node impurities of the samples with
\* feature <= threshold and > threshold (a side without samples aside), also when
\* no candidate has positive gain.
C5_Stated ==
  (pc = "done" /\ Split /\ Sorted /\ ExactImpurity) =>
    /\ params[0] = SubImpurity(Below(params[2]))
    /\ Above(params[2]) = {} \/ params[1] = SubImpurity(Above(params[2]))

\* C5: for a sorted order, when the returned gain is positive the returned left and
\* right impurities are the node impurities of the samples with feature <= threshold
\* and > threshold; when it is not, the record keeps its initial values 0, the
\* supplied whole impurity and the first feature value, whatever the two sides are.
C5_ImpuritiesOfSides ==
  (pc = "done" /\ Split /\ Sorted) =>
    IF RGt(params[3], Zero)
    THEN ImpuritiesOfSides
    ELSE params = MkParams(Zero, lp.impurity, Num(lp.f[lp.o[0]]), Zero)

C5_Witness ==
  /\ pc = "done" /\ lp.kind = "reg" /\ Sorted /\ ExactImpurity
  /\ RGt(params[3], Zero) /\ RGt(params[0], Zero)
  /\ Cardinality(Below(params[2])) = 2

\* C6 as stated: Scenario A returns threshold 2.5, left and right impurity 0 and
\* the whole gini 1/2 as gain.
C6_Stated ==
  (lp = ScenarioA /\ pc = "done") =>
    params = MkParams(Zero, Zero, Frac(5, 2), lp.impurity)

\* C6: Scenario A returns threshold 1.5, left impurity 0, right impurity 4/9 and
\* gain 1/6: the thresholds 1.5 and 2.5 tie and the first is kept, and no
\* threshold separates the two samples of feature value 2, whose labels differ.
C6_ScenarioA ==
  (lp = ScenarioA /\ pc = "done") =>
    /\ params = MkParams(Zero, Frac(4, 9), Frac(3, 2), Frac(1, 6))
    /\ \A k \in 1..Len(cands) : ~(cands[k].l_impurity = Zero /\ cands[k].r_impurity = Zero)

C6_Witness ==
  /\ lp = ScenarioA /\ pc = "done"
  /\ Len(cands) = 2
  /\ cands[1].threshold = Frac(3, 2) /\ cands[2].threshold = Frac(5, 2)
  /\ cands[1].gain = cands[2].gain

\* C7: when all samples share one feature value v, a scanner evaluates no
\* candidate and returns gain 0 and threshold v; the classification and regression
\* scanners also return left impurity 0 and the supplied whole impurity as right.
AllSame == \A i \in Idx(N) : lp.f[i] = lp.f[0]

C7_OneValue ==
  AllSame =>
    /\ cands = << >>
    /\ pc = "done" =>
         /\ RetGain = Zero
         /\ RetThreshold = Num(lp.f[0])
         /\ Split => (params[0] = Zero /\ params[1] = lp.impurity)

C7_Witness ==
  /\ AllSame /\ pc = "done" /\ N = 3 /\ lp.kind = "cls"
  /\ lp.impurity = WrongImpurity /\ params[1] = WrongImpurity
  /\ \E i \in Idx(N) : lp.y[i] # lp.y[0]

\* C8: whenever a gain is computed both sides are non-empty: the split position
\* is between 1 and n-1, and in the classification and regression scans
\* n_l_elements >= 1 and n_r_elements >= 1.
AtCandidate == pc = "inner" /\ ~InnerTest

C8_BothSidesNonEmpty ==
  /\ AtCandidate =>
       /\ next_pos \in 1..(N - 1)
       /\ Split => (n_l_elements >= 1 /\ n_r_elements >= 1)
  /\ \A k \in 1..Len(cands) :
       /\ cands[k].pos \in 1..(N - 1)
       /\ Split => (cands[k].n_l >= 1 /\ cands[k].n_r >= 1)

C8_Witness ==
  /\ AtCandidate /\ lp.kind = "greg" /\ ~Sorted
  /\ Len(cands) = 1 /\ next_pos = N - 1 /\ N = 3

\* C9 as stated: a call whose order does not make the feature column
\* non-decreasing is rejected before the scan begins: no candidate is evaluated
\* and no record is returned.
C9_Stated ==
  ~Sorted => (cands = << >> /\ pc # "done")

\* C10: a criterion tag that is not recognised gives what the default gives: in
\* classification every tag but "entropy" gives the record and the node impurity
\* of gini, in regression every tag but "mae" gives those of mse.
C10_DefaultCriterion ==
  /\ (lp.kind = "cls" /\ lp.criterion # "entropy") =>
       /\ Scanning => params = dflt_params
       /\ node_impurity_cls(lp.criterion, lp.y, N, lp.n_classes)
            = calc_gini_coef(Histogram(lp.y, N, lp.n_classes), N, lp.n_classes)
  /\ (lp.kind = "reg" /\ lp.criterion # "mae") =>
       /\ Scanning => params = dflt_params
       /\ node_impurity_reg(lp.criterion, lp.y, N, lp.n_outputs)
            = node_impurity_reg("mse", lp.y, N, lp.n_outputs)

C10_Witness ==
  /\ pc = "done" /\ lp.kind = "cls" /\ lp.criterion = "logloss"
  /\ RGt(params[3], Zero) /\ RGt(params[1], Zero)
  /\ params[1] # calc_entropy(r_histogram, n_r_elements, lp.n_classes)

\* the feature values of the node and, for one of them, the next larger one
Vals == {lp.f[i] : i \in Idx(N)}
NextVal(v) == CHOOSE w \in Vals : w > v /\ \A x \in Vals : x > v => w <= x

\* feature value at a position of the order
At(pos) == lp.f[lp.o[pos]]

\* C11: every candidate threshold is 0.5 * (v + w), v the feature value of the
\* group just moved to the left and w the value that follows it in the order,
\* which differs from v and, under a sorted order, is the next larger feature
\* value of the node; the best threshold is one of these or the initial one.
C11_Midpoints ==
  /\ \A k \in 1..Len(cands) :
       LET pos == cands[k].pos
       IN  /\ pos \in 1..(N - 1)
           /\ At(pos) # At(pos - 1)
           /\ cands[k].threshold = Frac(At(pos - 1) + At(pos), 2)
           /\ Sorted => At(pos) = NextVal(At(pos - 1))
  /\ Scanning =>
       \/ CurBest.threshold = Num(At(0))
       \/ \E k \in 1..Len(cands) : CurBest.threshold = cands[k].threshold

C11_Witness ==
  /\ pc = "done" /\ lp.kind = "greg" /\ Sorted /\ N = 3
  /\ Len(cands) = 1 /\ cands[1].pos = 2
  /\ At(1) = 1 /\ At(2) = 3
  /\ cands[1].threshold = Num(2) /\ params[0] = Num(2)

\* C12: check_same_label returns true if and only if every label equals the
\* first one, and it reads no label after the first one that differs.
FirstOther == CHOOSE i \in Idx(N) : lp.y[i] # lp.y[0] /\ \A k \in Idx(i) : lp.y[k] = lp.y[0]

C12_SameLabel ==
  lp.kind = "same_label" =>
    /\ pc = "return" => (ret <=> \A i \in Idx(N) : lp.y[i] = lp.y[0])
    /\ \A k \in 1..Len(y_reads) : \A i \in Idx(y_reads[k]) : lp.y[i] = lp.y[0]
    /\ (pc = "return" /\ ~ret) => y_reads[Len(y_reads)] = FirstOther

C12_Witness ==
  /\ lp.kind = "same_label" /\ pc = "return" /\ ~ret
  /\ N = 3 /\ lp.y[1] # lp.y[0] /\ lp.y[2] = lp.y[0]
  /\ y_reads = <<0, 0, 1>>

\* C13: check_same_value returns true if and only if every output of every
\* sample is within mEPS of the same output of the first sample, and it reads no
\* target after the first one, in row-major order, that is farther than mEPS.
Within(m) ==
  LET d == lp.y[m] - lp.y[m % lp.n_outputs]
  IN  d <= lp.mEPS /\ -d <= lp.mEPS

FirstFar ==
  CHOOSE m \in Idx(N * lp.n_outputs) : ~Within(m) /\ \A k \in Idx(m) : Within(k)

C13_SameValue ==
  lp.kind = "same_value" =>
    /\ pc = "return" =>
         (ret <=> \A i \in Idx(N) : \A j \in Idx(lp.n_outputs) : Within(i * lp.n_outputs + j))
    /\ \A k \in 1..Len(y_reads) : \A m \in Idx(y_reads[k]) : Within(m)
    /\ (pc = "return" /\ ~ret) => y_reads[Len(y_reads)] = FirstFar

C13_Witness ==
  /\ lp.kind = "same_value" /\ pc = "return" /\ ~ret
  /\ N = 3 /\ lp.n_outputs = 2 /\ lp.mEPS = 1
  /\ lp.y[0] = 0 /\ lp.y[1] = 0 /\ lp.y[2] = 1 /\ lp.y[3] = 3
  /\ y_reads = <<2, 3>>

\* sums of the gradients and hessians of the samples at positions lo..hi of the order
GradOf(lo, hi) == ISum([i \in Idx(N) |-> lp.g[lp.o[i]]], lo, hi)
HessOf(lo, hi) == ISum([i \in Idx(N) |-> lp.h[lp.o[i]]], lo, hi)

\* the closed-form gain of the split that puts the first k samples of the order
\* on the left, all sums taken over the samples themselves
ClosedGain(k) ==
  LET Term(grad, hess) == RDiv(RMul(Num(grad), Num(grad)), RAdd(Num(hess), Num(lp.reg_lambda)))
  IN  RSub(RAdd(Term(GradOf(0, k - 1), HessOf(0, k - 1)),
                Term(GradOf(k, N - 1), HessOf(k, N - 1))),
           Term(GradOf(0, N - 1), HessOf(0, N - 1)))

\* C14: on Scenario D the gradient scanner returns the greatest of the closed-form
\* gains of the three interior splits (3/4, 0 and 3), that is 3.
C14_ScenarioD ==
  (lp = ScenarioD /\ pc = "done") =>
    /\ Len(cands) = 3
    /\ \E k \in 1..3 : params[1] = ClosedGain(k)
    /\ \A k \in 1..3 : RGe(params[1], ClosedGain(k))
    /\ params[1] = Num(3)

C14_Witness ==
  /\ lp = ScenarioD /\ pc = "done"
  /\ cands[1].gain = Frac(3, 4) /\ cands[2].gain = Zero /\ cands[3].gain = Num(3)
  /\ params[1] = Num(3) /\ params[0] = Frac(7, 2)

\* the supplied totals are the sums over the node's samples
TotalsExact ==
  /\ lp.sum_gradient = GradOf(0, N - 1)
  /\ lp.sum_hessian = HessOf(0, N - 1)

\* the gain formula on given left, right and total sums
GainOf(lg, lh, rg, rh, sg, sh) ==
  LET Term(grad, hess) == RDiv(RMul(Num(grad), Num(grad)), RAdd(Num(hess), Num(lp.reg_lambda)))
  IN  RSub(RAdd(Term(lg, lh), Term(rg, rh)), Term(sg, sh))

\* C15: at every candidate of the gradient scanner the gain is the formula with L
\* the sums of the samples moved to the left, S the supplied totals and R = S - L;
\* when the supplied totals are the node's sums, R is the sum of the samples still
\* on the right and S = L + R is the sum over the node.
C15_GainFormula ==
  lp.kind = "greg" =>
    \A k \in 1..Len(cands) :
      LET pos == cands[k].pos
          lg == GradOf(0, pos - 1)
          lh == HessOf(0, pos - 1)
      IN  /\ cands[k].gain = GainOf(lg, lh, lp.sum_gradient - lg, lp.sum_hessian - lh,
                                    lp.sum_gradient, lp.sum_hessian)
          /\ TotalsExact => cands[k].gain = ClosedGain(pos)

C15_Witness ==
  /\ lp.kind = "greg" /\ pc = "done" /\ TotalsExact /\ lp.sum_gradient # 0
  /\ Len(cands) = 2
  /\ cands[2].gain = ClosedGain(2) /\ RGt(cands[2].gain, Zero)
  /\ cands[1].gain # cands[2].gain

\* number of samples of label c among the positions lo..hi of the order
CountOf(c, lo, hi) == Cardinality({i \in lo..hi : lp.y[lp.o[i]] = c})

\* - sum_c p_c * ln(p_c + 1), p_c = count_c / n, over the samples at lo..hi
RECURSIVE PLnSum(_, _, _)
PLnSum(c, lo, hi) ==
  IF c < 0 THEN Zero
  ELSE RAdd(PLnSum(c - 1, lo, hi),
            RMul(Frac(CountOf(c, lo, hi), hi - lo + 1),
                 Log1p(CountOf(c, lo, hi), hi - lo + 1)))

EntropyOf(lo, hi) == RSub(Zero, PLnSum(lp.n_classes - 1, lo, hi))

\* C16: with criterion "entropy" the impurity is - sum_c p_c * ln(p_c + 1) with
\* p_c = count_c / n, in the node impurity and at both sides of every candidate
\* of the scan; a pure set has impurity -ln 2, not the 0 of Shannon entropy.
C16_EntropyFormula ==
  (lp.kind = "cls" /\ lp.criterion = "entropy") =>
    /\ node_impurity_cls(lp.criterion, lp.y, N, lp.n_classes) = EntropyOf(0, N - 1)
    /\ \A k \in 1..Len(cands) :
         /\ cands[k].l_impurity = EntropyOf(0, cands[k].pos - 1)
         /\ cands[k].r_impurity = EntropyOf(cands[k].pos, N - 1)
    /\ (\A i \in Idx(N) : lp.y[i] = lp.y[0]) =>
         node_impurity_cls(lp.criterion, lp.y, N, lp.n_classes) = Frac(-693, 1000)

C16_Witness ==
  /\ lp.kind = "cls" /\ lp.criterion = "entropy" /\ pc = "done" /\ N = 3
  /\ Len(cands) = 1 /\ cands[1].pos = 2
  /\ cands[1].l_impurity = Frac(-405, 1000)
  /\ cands[1].r_impurity = Frac(-693, 1000)

\* the samples at positions lo..hi of the order carry one label / one target vector
PureLabels(lo, hi) == \A i \in lo..hi : lp.y[lp.o[i]] = lp.y[lp.o[lo]]
PureTargets(lo, hi) ==
  \A i \in lo..hi : \A j \in Idx(lp.n_outputs) :
    lp.y[lp.o[i] * lp.n_outputs + j] = lp.y[lp.o[lo] * lp.n_outputs + j]
Pure(lo, hi) == IF lp.kind = "cls" THEN PureLabels(lo, hi) ELSE PureTargets(lo, hi)

NodeImpurity ==
  IF lp.kind = "cls"
  THEN node_impurity_cls(lp.criterion, lp.y, N, lp.n_classes)
  ELSE node_impurity_reg(lp.criterion, lp.y, N, lp.n_outputs)

\* C17 as stated: for every criterion the impurity of a pure set of samples is 0,
\* in the node impurity and at the sides of the candidates of a scan.
C17_Stated ==
  Split =>
    /\ Pure(0, N - 1) => NodeImpurity = Zero
    /\ \A k \in 1..Len(cands) :
         /\ Pure(0, cands[k].pos - 1) => cands[k].l_impurity = Zero
         /\ Pure(cands[k].pos, N - 1) => cands[k].r_impurity = Zero

\* C17: the impurity of a pure set of samples is 0 for gini, mse and mae (and for
\* the tags that fall back to gini or mse); for entropy it is -ln 2, since the
\* one class present contributes 1 * ln(1 + 1).
PureValue == IF lp.kind = "cls" /\ lp.criterion = "entropy" THEN Frac(-693, 1000) ELSE Zero

C17_PureImpurity ==
  Split =>
    /\ Pure(0, N - 1) => NodeImpurity = PureValue
    /\ \A k \in 1..Len(cands) :
         /\ Pure(0, cands[k].pos - 1) => cands[k].l_impurity = PureValue
         /\ Pure(cands[k].pos, N - 1) => cands[k].r_impurity = PureValue

C17_Witness ==
  /\ lp.kind = "cls" /\ lp.criterion = "entropy" /\ pc = "done" /\ N = 3
  /\ Pure(0, N - 1) /\ NodeImpurity = Frac(-693, 1000)
  /\ Len(cands) = 2 /\ cands[2].l_impurity = Frac(-693, 1000)

\* C18: during the classification scan every entry of l_histogram and of
\* r_histogram is a non-negative integer, the entries of l_histogram sum to
\* n_l_elements and those of r_histogram to n_r_elements.
C18_HistogramsAreCounts ==
  (lp.kind = "cls" /\ Scanning) =>
    /\ \A c \in Idx(lp.n_classes) : l_histogram[c] \in Nat /\ r_histogram[c] \in Nat
    /\ ISum(l_histogram, 0, lp.n_classes - 1) = n_l_elements
    /\ ISum(r_histogram, 0, lp.n_classes - 1) = n_r_elements

C18_Witness ==
  /\ lp.kind = "cls" /\ pc = "inner" /\ ~Sorted
  /\ n_l_elements = 2 /\ n_r_elements = 1
  /\ l_histogram[0] = 2 /\ r_histogram[0] = 0 /\ r_histogram[1] = 1

\* the split after the first pos samples of the order keeps equal values together:
\* everything on the left is <= v, the value last moved, everything on the right > v
GroupsWhole(pos) ==
  /\ \A p \in 0..(pos - 1) : At(p) <= At(pos - 1)
  /\ \A p \in pos..(N - 1) : At(p) > At(pos - 1)

\* C19: under a sorted order, at every candidate all samples sharing the current
\* feature value are on the left: the left samples have feature <= the current
\* value and the right samples a larger one, and curr_el is that value.
C19_GroupsMoveWhole ==
  Sorted =>
    /\ AtCandidate => (GroupsWhole(next_pos) /\ curr_el = At(next_pos - 1))
    /\ \A k \in 1..Len(cands) :
         GroupsWhole(cands[k].pos) /\ cands[k].curr_el = At(cands[k].pos - 1)

C19_Witness ==
  /\ Sorted /\ AtCandidate /\ lp.kind = "cls" /\ N = 3
  /\ next_pos = 2 /\ At(0) = At(1) /\ At(1) < At(2)
  /\ lp.o # IdOrder(N)

\* the k-th smallest and the largest feature value of the node
KthVal(k) == CHOOSE v \in Vals : Cardinality({x \in Vals : x < v}) = k - 1
MaxVal == CHOOSE v \in Vals : \A x \in Vals : x <= v
BelowMax == Cardinality({i \in Idx(N) : lp.f[i] < MaxVal})

\* C20: under a sorted order with d distinct feature values the scan evaluates
\* d - 1 candidates, the k-th after the k-th smallest value, with increasing
\* thresholds; it is over as soon as the current value is the largest one, and
\* the samples holding the largest value are never moved to the left.
C20_OneCandidatePerValue ==
  Sorted =>
    /\ Len(cands) <= Cardinality(Vals) - 1
    /\ \A k \in 1..Len(cands) :
         /\ cands[k].curr_el = KthVal(k)
         /\ cands[k].threshold = Frac(KthVal(k) + KthVal(k + 1), 2)
         /\ k > 1 => RGt(cands[k].threshold, cands[k - 1].threshold)
    /\ next_pos <= BelowMax
    /\ Split => n_l_elements <= BelowMax
    /\ curr_el = MaxVal => pc # "inner"
    /\ pc \in {"store", "done"} =>
         /\ Len(cands) = Cardinality(Vals) - 1
         /\ curr_el = MaxVal
         /\ next_pos = BelowMax

C20_Witness ==
  /\ Sorted /\ pc = "done" /\ lp.kind = "reg" /\ N = 3
  /\ Cardinality(Vals) = 2 /\ Len(cands) = 1
  /\ At(0) < At(1) /\ At(1) = At(2)
  /\ next_pos = 1 /\ n_l_elements = 1 /\ n_r_elements = 2

\* the j-th output of the sample at a position of the order
TargetAt(pos, j) == lp.y[lp.o[pos] * lp.n_outputs + j]

\* mean of the j-th output over the samples at positions lo..hi of the order
DirectMean(lo, hi, j) ==
  RDiv(RSum([p \in Idx(N) |-> Num(TargetAt(p, j))], lo, hi), Num(hi - lo + 1))

\* (1/n) * sum_i (1/n_outputs) * sum_j dev(y_ij - mean_j) over the samples at
\* positions lo..hi of the order, dev the square, or the absolute value for "mae"
DirectImpurity(lo, hi) ==
  LET Dev(x) == IF lp.criterion = "mae" THEN RAbs(x) ELSE RMul(x, x)
      OfSample(p) ==
        RMul(Frac(1, lp.n_outputs),
             RSum([j \in Idx(lp.n_outputs) |->
                     Dev(RSub(Num(TargetAt(p, j)), DirectMean(lo, hi, j)))],
                  0, lp.n_outputs - 1))
  IN  RMul(Frac(1, hi - lo + 1), RSum([p \in Idx(N) |-> OfSample(p)], lo, hi))

\* C21: at every candidate of the regression scan the mean vector of a side is
\* its sum vector divided by its size, that is the mean of the targets of the
\* side's samples, and the impurity of the side is
\* (1/n) * sum_i (1/n_outputs) * sum_j (y_ij - mean_j)^2 (absolute deviation for
\* "mae") over the raw targets of exactly those samples (looked at after each
\* evaluation, the only step that adds a candidate); on Scenario C the three
\* candidates have left and right mse (0, 2/3), (1/4, 1/4) and (2/3, 0).
C21_DirectImpurity ==
  lp.kind = "reg" =>
    /\ AtCandidate =>
         \A j \in Idx(lp.n_outputs) :
           /\ MeanVec(l_sum_y, n_l_elements)[j] = DirectMean(0, next_pos - 1, j)
           /\ MeanVec(r_sum_y, n_r_elements)[j] = DirectMean(next_pos, N - 1, j)
    /\ pc # "inner" =>
         \A k \in 1..Len(cands) :
           /\ cands[k].l_impurity = DirectImpurity(0, cands[k].pos - 1)
           /\ cands[k].r_impurity = DirectImpurity(cands[k].pos, N - 1)
    /\ (lp = ScenarioC /\ pc = "done") =>
         /\ Len(cands) = 3
         /\ <<cands[1].l_impurity, cands[1].r_impurity>> = <<Zero, Frac(2, 3)>>
         /\ <<cands[2].l_impurity, cands[2].r_impurity>> = <<Frac(1, 4), Frac(1, 4)>>
         /\ <<cands[3].l_impurity, cands[3].r_impurity>> = <<Frac(2, 3), Zero>>

C21_Witness ==
  /\ lp = ScenarioC /\ AtCandidate /\ next_pos = 2
  /\ MeanVec(l_sum_y, n_l_elements)[0] = Frac(3, 2)
  /\ MeanVec(r_sum_y, n_r_elements)[0] = Frac(7, 2)
  /\ Len(cands) = 1 /\ cands[1].r_impurity = Frac(2, 3)

\* a step that moves one sample from the right to the left
MoveStep == pc = "inner" /\ pc' = "inner"

\* variant of the scan: the samples not yet passed by next_pos and by curr_pos,
\* then the position within the iteration
Rank ==
  3 * (N - next_pos) + 3 * (N - curr_pos)
    + CASE pc = "init" -> 4 [] pc = "while" -> 3 [] pc = "inner" -> 2
        [] pc = "store" -> 1 [] OTHER -> 0

\* a scan that has not returned can take a step: one of the steps before and
\* after the evaluation of a candidate is enabled, or a candidate is to be
\* evaluated, which the scanner of the call's kind always can
CanStep ==
  \/ ENABLED (ClsInit \/ ClsLoop \/ ClsMove \/ RegInit \/ RegLoop \/ RegMove
                \/ GregLoop \/ GregMove \/ GregStore)
  \/ AtCandidate /\ lp.kind \in {"cls", "reg", "greg"}

\* C22: the scan of every scanner terminates, under sorted and unsorted orders:
\* every step lowers a non-negative variant and a scan that has not returned can
\* step; every move takes the sample at next_pos and advances next_pos by one, so
\* no sample is moved twice; every outer iteration moves at least one sample
\* before its candidate, so the candidates' positions increase strictly; and no
\* more than n - 1 candidates are evaluated.
C22_Terminates ==
  /\ [][/\ Rank' < Rank
        /\ next_pos' >= next_pos
        /\ next_pos' # next_pos <=> MoveStep
        /\ MoveStep => next_pos' = next_pos + 1]_vars
  /\ [](/\ Rank >= 0
        /\ pc # "done" => CanStep
        /\ next_pos <= N - 1
        /\ AtCandidate => next_pos > curr_pos
        /\ Len(cands) <= N - 1
        /\ \A k \in 2..Len(cands) : cands[k].pos > cands[k - 1].pos)

C22_Witness ==
  /\ pc = "done" /\ ~Sorted /\ N = 3 /\ lp.kind = "cls"
  /\ Len(cands) = 2 /\ next_pos = 2
  /\ At(0) > At(1) /\ At(1) < At(2)

\* C23: every index at which a scanner reads the order is between 0 and n - 1:
\* no element past the end is read, the look-ahead read made after next_pos++
\* included, since next_pos never reaches n; hence at the end of an iteration
\* next_pos == n_elements is false and the scan goes on to the next loop test.
C23_ReadsInRange ==
  /\ ~oob
  /\ next_pos \in 0..(N - 1)
  /\ curr_pos \in 0..(N - 1)
  /\ AtCandidate => next_pos # N
  /\ \A k \in 1..Len(cands) : cands[k].pos # N
  /\ (pc \in {"store", "done"}) => (curr_el = last_el /\ curr_pos = next_pos)

C23_Witness ==
  /\ AtCandidate /\ lp.kind = "reg" /\ ~Sorted /\ N = 3
  /\ next_pos = N - 1 /\ ~oob /\ Len(cands) = 1
  /\ next_el = At(N - 1)

\* C24: in the classification and regression scans n_l_elements = next_pos and
\* n_r_elements = n - next_pos, at every candidate in particular, so the left side
\* is order[0 .. next_pos) and the right side order[next_pos .. n); the impurity of
\* the regressor, reading the order at offset 0 over n_l_elements positions and at
\* offset next_pos over n_r_elements positions, reads exactly those two ranges and
\* nothing past order[n - 1].
C24_SidesArePrefixAndSuffix ==
  (Split /\ Scanning) =>
    /\ n_l_elements = next_pos
    /\ n_r_elements = N - next_pos
    /\ \A k \in 1..Len(cands) :
         cands[k].n_l = cands[k].pos /\ cands[k].n_r = N - cands[k].pos
    /\ (AtCandidate /\ lp.kind = "reg") =>
         /\ ImpurityReads(n_l_elements, 0) = 0..(next_pos - 1)
         /\ ImpurityReads(n_r_elements, next_pos) = next_pos..(N - 1)
         /\ \A p \in ImpurityReads(n_l_elements, 0) \cup ImpurityReads(n_r_elements, next_pos) :
              p \in Idx(N)

C24_Witness ==
  /\ AtCandidate /\ lp.kind = "reg" /\ N = 3 /\ lp.o # IdOrder(N)
  /\ next_pos = 2 /\ n_l_elements = 2 /\ n_r_elements = 1
  /\ ImpurityReads(n_r_elements, next_pos) = {2}

\* C25: when the order sorts the feature column, the sorted-array classification
\* scanner, given sorted_f[i] = f[order[i]], sorted_y[i] = y[order[i]], the
\* ascending distinct feature values as uniqed_f and the same criterion, whole
\* impurity and n_classes, returns the record of the order-based scanner.
C25_LegacyRecord ==
  (pc = "returned" /\ lp.kind = "cls" /\ Sorted) => opt_params = params

C25_Witness ==
  /\ pc = "returned" /\ lp.kind = "cls" /\ Sorted /\ N = 3
  /\ n_uniq_elements = 3 /\ lp.o # IdOrder(N)
  /\ RGt(params[3], Zero) /\ opt_params = params
  /\ params[2] = Frac(5, 2)

\* C26: the regression scanner that keeps the target vectors of the two sides
\* in lists (shift from the right list, push to the left list) returns the record
\* of the regression scanner that reads the targets through the order with an
\* offset, for the same criterion, whole impurity, order, features and targets,
\* whether or not the order sorts the features; at every candidate its lists hold
\* the targets of order[0 .. next_pos) and order[next_pos .. n).
C26_ListRecord ==
  lp.kind = "reg" =>
    /\ pc = "returned" => opt_params = params
    /\ pc = "list_inner" =>
         /\ Len(l_target_vecs) = next_pos /\ Len(r_target_vecs) = N - next_pos
         /\ \A i \in 1..Len(l_target_vecs) : \A j \in Idx(lp.n_outputs) :
              l_target_vecs[i][j] = TargetAt(i - 1, j)
         /\ \A i \in 1..Len(r_target_vecs) : \A j \in Idx(lp.n_outputs) :
              r_target_vecs[i][j] = TargetAt(next_pos + i - 1, j)

C26_Witness ==
  /\ pc = "returned" /\ lp.kind = "reg" /\ ~Sorted /\ lp.n_outputs = 2
  /\ lp.criterion = "mae" /\ Len(cands) = 1
  /\ RGt(params[3], Zero) /\ opt_params = params
  /\ l_target_vecs[1] # r_target_vecs[1]
  /\ Len(l_target_vecs) = 1 /\ Len(r_target_vecs) = 1

MinVal == CHOOSE v \in Vals : \A x \in Vals : v <= x

\* the samples at the positions lo..hi of the order
SamplesAt(lo, hi) == {lp.o[p] : p \in lo..hi}

\* C27: under a sorted order, a scanner that returns a positive gain returns the
\* threshold of a candidate of that gain, which lies strictly between two adjacent
\* distinct feature values, hence strictly between the smallest and the largest:
\* the samples with feature <= threshold are exactly the left side of that
\* candidate and both sides are non-empty.  A scanner that returns gain 0 returns
\* the smallest feature value f[order[0]] as threshold.
C27_ThresholdLocation ==
  (pc = "done" /\ Sorted) =>
    IF RGt(RetGain, Zero)
    THEN \E k \in 1..Len(cands) :
           LET pos == cands[k].pos
               t == RetThreshold
           IN  /\ cands[k].gain = RetGain /\ cands[k].threshold = t
               /\ RGt(t, Num(At(pos - 1))) /\ RGt(Num(At(pos)), t)
               /\ At(pos) = NextVal(At(pos - 1))
               /\ RGt(t, Num(MinVal)) /\ RGt(Num(MaxVal), t)
               /\ Below(t) = SamplesAt(0, pos - 1)
               /\ Above(t) = SamplesAt(pos, N - 1)
               /\ Below(t) # {} /\ Above(t) # {}
    ELSE /\ RetGain = Zero
         /\ RetThreshold = Num(At(0))
         /\ At(0) = MinVal

C27_Witness ==
  /\ pc = "done" /\ Sorted /\ lp.kind = "greg" /\ N = 3 /\ lp.o # IdOrder(N)
  /\ RGt(RetGain, Zero) /\ RetThreshold = Frac(5, 2)
  /\ Cardinality(Below(RetThreshold)) = 2 /\ Len(cands) = 2

\* C28: when check_same_label is true of the labels of a node, the node's gini
\* impurity is 0, and the classification scanner called with gini and whole
\* impurity 0 evaluates only candidates of gain 0 and returns the initial record
\* (left impurity 0, right impurity 0, threshold f[order[0]], gain 0), whatever
\* the feature column and the order.
C28_HomogeneousNoSplit ==
  (lp.kind = "cls" /\ check_same_label(lp.y, N)) =>
    /\ node_impurity_cls("gini", lp.y, N, lp.n_classes) = Zero
    /\ (lp.criterion = "gini" /\ lp.impurity = Zero /\ Scanning) =>
         /\ params = MkParams(Zero, Zero, Num(At(0)), Zero)
         /\ \A k \in 1..Len(cands) :
              /\ cands[k].gain = Zero
              /\ cands[k].l_impurity = Zero /\ cands[k].r_impurity = Zero

C28_Witness ==
  /\ lp.kind = "cls" /\ check_same_label(lp.y, N) /\ lp.criterion = "gini"
  /\ lp.impurity = Zero /\ pc = "done" /\ N = 3 /\ lp.y[0] = 1
  /\ Len(cands) = 2 /\ cands[2].threshold = Frac(5, 2)
  /\ params = MkParams(Zero, Zero, Num(1), Zero)

\* the three divisors of the gain at the current position of the gradient scan
Divisors ==
  <<l_hess + lp.reg_lambda, (lp.sum_hessian - l_hess) + lp.reg_lambda,
    lp.sum_hessian + lp.reg_lambda>>

\* C29: in the gradient scanner, with hessians >= 0, reg_lambda > 0 and
\* sum_hessian the sum of the node's hessians, the divisors l_hess + lambda,
\* r_hess + lambda and s_hess + lambda are > 0 at every candidate and every gain is
\* a number; the right sums are the supplied totals minus the left sums, and a
\* call whose totals are not the sums of its arrays is scanned like any other.
C29_Divisors ==
  lp.kind = "greg" =>
    /\ ((\A i \in Idx(N) : lp.h[i] >= 0) /\ lp.reg_lambda > 0
          /\ lp.sum_hessian = HessOf(0, N - 1)) =>
         /\ AtCandidate =>
              /\ \A d \in 1..3 : Divisors[d] > 0
              /\ l_hess = HessOf(0, next_pos - 1)
              /\ lp.sum_hessian - l_hess = HessOf(next_pos, N - 1)
         /\ \A k \in 1..Len(cands) : IsNum(cands[k].gain)
    /\ \A k \in 1..Len(cands) :
         cands[k].gain = GregGain(GradOf(0, cands[k].pos - 1), HessOf(0, cands[k].pos - 1))
    /\ (AtCandidate /\ ~TotalsExact) =>
         \/ lp.sum_gradient - l_grad # GradOf(next_pos, N - 1)
         \/ lp.sum_hessian - l_hess # HessOf(next_pos, N - 1)

C29_Witness ==
  /\ lp.kind = "greg" /\ AtCandidate /\ TotalsExact /\ N = 3
  /\ lp.sum_hessian = 0 /\ l_hess = 0 /\ next_pos = 2
  /\ Divisors = <<1, 1, 1>> /\ Len(cands) = 1

\* the weighted average of the impurities of the two sides of a candidate
ChildImpurity(c) ==
  RDiv(RAdd(RMul(Num(c.n_l), c.l_impurity), RMul(Num(c.n_r), c.r_impurity)), Num(N))

\* C30: with criterion gini in classification and mse in regression, and the
\* node's own impurity supplied as whole impurity, every candidate's gain
\* w_impurity - (n_l * l_impurity + n_r * r_impurity) / n is >= 0: the weighted
\* impurity of the two sides is at most the impurity of the node.
C30_GainNonNegative ==
  (Split /\ lp.criterion = (IF lp.kind = "cls" THEN "gini" ELSE "mse")
     /\ Len(cands) > 0 /\ ExactImpurity) =>
    \A k \in 1..Len(cands) :
      /\ cands[k].gain = RSub(lp.impurity, ChildImpurity(cands[k]))
      /\ RGe(cands[k].gain, Zero)
      /\ RGe(lp.impurity, ChildImpurity(cands[k]))

C30_Witness ==
  /\ lp.kind = "cls" /\ lp.criterion = "gini" /\ ExactImpurity /\ pc = "done"
  /\ N = 3 /\ ~Sorted /\ Len(cands) = 2
  /\ lp.impurity = Frac(4, 9)
  /\ cands[1].gain = Frac(1, 9) /\ cands[1].r_impurity = Frac(1, 2)

=============================================================================
